---- MODULE Spec2Model ----
(***************************************************************************)
(* Projective (4 point) image transformation of leptonica's projective.c. *)
(*                                                                         *)
(* Every public function of projective.c is one action that applies the   *)
(* whole function to arguments drawn in Init.  Numbers that the C code     *)
(* keeps in l_float32 are kept here as exact rationals (integer numerators *)
(* over a common positive denominator); the arguments are drawn so that    *)
(* every intermediate value is small and the comparisons the code makes   *)
(* (x < 0, the .5 ties of the rounding) come out as in float arithmetic.   *)
(***************************************************************************)
EXTENDS Integers, Sequences, FiniteSets, TLC

(***************************************************************************)
(* Bounds of the arguments.                                                *)
(***************************************************************************)
MaxW == 2
MaxH == 2
MaxShift == 2

(***************************************************************************)
(* Values of the surrounding library.                                      *)
(***************************************************************************)
NULL == [null |-> TRUE]

L_BRING_IN_WHITE == 1
L_BRING_IN_BLACK == 2

Black == <<0, 0, 0>>
White == <<255, 255, 255>>
Red == <<255, 0, 0>>

Pow2(d) ==
  CASE d = 1 -> 2 [] d = 2 -> 4 [] d = 4 -> 16 [] d = 8 -> 256
    [] d = 16 -> 65536 [] OTHER -> 0

\* A 32 bpp pixel is the tuple of its four bytes, most significant (red) first.
Rgba(r, g, b, a) == <<r, g, b, a>>

\* The pixel of depth d with every bit set / cleared.
AllOnes(d) == IF d = 32 THEN Rgba(255, 255, 255, 255) ELSE Pow2(d) - 1
AllZeros(d) == IF d = 32 THEN Rgba(0, 0, 0, 0) ELSE 0

Rows(pix) == 0 .. (pix.h - 1)
Cols(pix) == 0 .. (pix.w - 1)

HasCmap(pix) == pix.cmap # NULL

pixGetDepth(pix) == pix.d
pixGetColormap(pix) == pix.cmap
pixcmapGetCount(cmap) == cmap.n

\* arrayaccess.h: read / write of one pixel of a raster line.
GET_DATA_BIT(line, n) == line[n]
SET_DATA_BIT(line, n) == [line EXCEPT ![n] = 1]
GET_DATA_DIBIT(line, n) == line[n]
SET_DATA_DIBIT(line, n, val) == [line EXCEPT ![n] = val % 4]
GET_DATA_QBIT(line, n) == line[n]
SET_DATA_QBIT(line, n, val) == [line EXCEPT ![n] = val % 16]
GET_DATA_BYTE(line, n) == line[n]
SET_DATA_BYTE(line, n, val) == [line EXCEPT ![n] = val % 256]

\* pixCreateTemplate: a new image of the geometry of pixs, all pixels 0,
\* carrying its own copy of the color map of pixs as it is at the call.
pixCreateTemplate(pixs) ==
  [w |-> pixs.w, h |-> pixs.h, d |-> pixs.d,
   data |-> [i \in Rows(pixs) |-> [j \in Cols(pixs) |-> AllZeros(pixs.d)]],
   cmap |-> pixs.cmap]

pixClearAll(pix) ==
  [pix EXCEPT !.data = [i \in Rows(pix) |-> [j \in Cols(pix) |-> AllZeros(pix.d)]]]

pixSetAll(pix) ==
  [pix EXCEPT !.data = [i \in Rows(pix) |-> [j \in Cols(pix) |-> AllOnes(pix.d)]]]

pixSetAllArbitrary(pix, val) ==
  [pix EXCEPT !.data = [i \in Rows(pix) |-> [j \in Cols(pix) |-> val]]]

\* Index of the first entry of a color map array equal to color, 0 based;
\* Len(array) when there is none.
RECURSIVE CmapIndexFrom(_, _, _)
CmapIndexFrom(array, color, k) ==
  IF k > Len(array) THEN Len(array)
  ELSE IF array[k] = color THEN k - 1
  ELSE CmapIndexFrom(array, color, k + 1)

\* pixcmapAddBlackOrWhite(cmap, color, &index): color 0 is black, 1 is white.
\* The entry is appended if the map does not have it; the map is changed in
\* place, so the result carries the map after the call.
pixcmapAddBlackOrWhite(cmap, color) ==
  LET rgb == IF color = 0 THEN Black ELSE White
      idx == CmapIndexFrom(cmap.array, rgb, 1)
  IN  IF idx < cmap.n
        THEN [cmap |-> cmap, index |-> idx]
        ELSE [cmap |-> [cmap EXCEPT !.n = cmap.n + 1,
                                    !.array = Append(cmap.array, rgb)],
              index |-> cmap.n]

(***************************************************************************)
(* Coefficient vectors: vc[k] = num[k + 1] / den, den > 0.                 *)
(***************************************************************************)
\* Integer part of p / q, truncated toward zero as a C cast does (q # 0).
TruncDiv(p, q) ==
  LET pp == IF q < 0 THEN -p ELSE p
      qq == IF q < 0 THEN -q ELSE q
  IN  IF pp >= 0 THEN pp \div qq ELSE -((-pp) \div qq)

\* Numerators (over vc.den) of the three sums projectiveXform*Pt computes.
XNum(vc, x, y) == vc.num[1] * x + vc.num[2] * y + vc.num[3]
YNum(vc, x, y) == vc.num[4] * x + vc.num[5] * y + vc.num[6]
Denom(vc, x, y) == vc.num[7] * x + vc.num[8] * y + vc.den

\* projectiveXformSampledPt(vc, x, y, &xp, &yp): (l_int32)(factor * sum + 0.5).
\* With a zero denominator factor is infinite and the cast of the non-finite
\* product is undefined: ub is the integer the build produces for it.
projectiveXformSampledPt(vc, x, y, ub) ==
  LET den == Denom(vc, x, y)
  IN  IF den = 0
        THEN [xp |-> ub, yp |-> ub]
        ELSE [xp |-> TruncDiv(2 * XNum(vc, x, y) + den, 2 * den),
              yp |-> TruncDiv(2 * YNum(vc, x, y) + den, 2 * den)]

(***************************************************************************)
(* Sampled projective image transformation.                                *)
(***************************************************************************)
\* The scan over the dest pixels of pixProjectiveSampled: the raster of pixd
\* after the loop.  Iteration (i, j) reads pixs and writes only pixel j of
\* dest line i, so the loop is the pointwise map below.  SampledPixel is the
\* body of the loop for the mapped point p: pixel j of dest line lined.
\* The loops "for (i = 0; i < h; i++) for (j = 0; j < w; j++)" of the three
\* passes, from iteration (i, j) on: acc.visits counts the iterations and
\* acc.writes[i][j] the stores to dest pixel (j, i), of which iteration
\* (i, j) makes stores[i][j].
RECURSIVE RasterLoop(_, _, _, _, _, _)
RasterLoop(w, h, i, j, stores, acc) ==
  IF i >= h THEN acc
  ELSE IF j >= w THEN RasterLoop(w, h, i + 1, 0, stores, acc)
  ELSE RasterLoop(w, h, i, j + 1, stores,
                  [visits |-> acc.visits + 1,
                   writes |-> [acc.writes EXCEPT ![i][j] = @ + stores[i][j]]])

NoWrites(w, h) ==
  [visits |-> 0, writes |-> [i \in 0 .. (h - 1) |-> [j \in 0 .. (w - 1) |-> 0]]]

\* SampledStores with a store of the border value for a point outside.
SampledStores_StoreOutside(pixs, p) ==
  IF p.xp < 0 \/ p.yp < 0 \/ p.xp >= pixs.w \/ p.yp >= pixs.h THEN 1
  ELSE IF pixs.d = 1
    THEN IF GET_DATA_BIT(pixs.data[p.yp], p.xp) # 0 THEN 1 ELSE 0
  ELSE IF pixs.d \in {8, 32, 2, 4} THEN 1
  ELSE 0

\* The number of stores to the dest pixel that one iteration of the loop of
\* pixProjectiveSampled makes, for the mapped point p.
SampledStores(pixs, p) ==
  IF p.xp < 0 \/ p.yp < 0 \/ p.xp >= pixs.w \/ p.yp >= pixs.h THEN 0
  ELSE IF pixs.d = 1
    THEN IF GET_DATA_BIT(pixs.data[p.yp], p.xp) # 0 THEN 1 ELSE 0
  ELSE IF pixs.d \in {8, 32, 2, 4} THEN 1
  ELSE 0

SampledLoop(pixs, vc, ub) ==
  RasterLoop(pixs.w, pixs.h, 0, 0,
             [i \in Rows(pixs) |-> [j \in Cols(pixs) |->
                SampledStores(pixs, projectiveXformSampledPt(vc, j, i, ub))]],
             NoWrites(pixs.w, pixs.h))

\* The loops of pixProjectiveGray and pixProjectiveColor store once in each
\* iteration.
InterpolatedLoop(pixs) ==
  RasterLoop(pixs.w, pixs.h, 0, 0,
             [i \in Rows(pixs) |-> [j \in Cols(pixs) |-> 1]],
             NoWrites(pixs.w, pixs.h))

SampledPixel(pixs, lined, j, p) ==
  IF p.xp < 0 \/ p.yp < 0 \/ p.xp >= pixs.w \/ p.yp >= pixs.h
    THEN lined[j]
    ELSE IF pixs.d = 1
      THEN IF GET_DATA_BIT(pixs.data[p.yp], p.xp) # 0
             THEN SET_DATA_BIT(lined, j)[j]
             ELSE lined[j]
    ELSE IF pixs.d = 8
      THEN SET_DATA_BYTE(lined, j, GET_DATA_BYTE(pixs.data[p.yp], p.xp))[j]
    ELSE IF pixs.d = 32
      THEN pixs.data[p.yp][p.xp]
    ELSE IF pixs.d = 2
      THEN SET_DATA_DIBIT(lined, j, GET_DATA_DIBIT(pixs.data[p.yp], p.xp))[j]
    ELSE IF pixs.d = 4
      THEN SET_DATA_QBIT(lined, j, GET_DATA_QBIT(pixs.data[p.yp], p.xp))[j]
    ELSE lined[j]

SampledScan(pixs, pixd, vc, ub) ==
  [i \in Rows(pixs) |->
    [j \in Cols(pixs) |->
      SampledPixel(pixs, pixd.data[i], j,
                   projectiveXformSampledPt(vc, j, i, ub))]]

\* SampledInit with the canvas cleared only for a white border on 1 bpp.
SampledInit_ClearOnlyOneBitWhite(pixs, incolor) ==
  LET pixd == pixCreateTemplate(pixs)
      cmap == pixGetColormap(pixs)
      d == pixs.d
  IN  IF cmap # NULL
        THEN LET color == IF incolor = L_BRING_IN_WHITE THEN 1 ELSE 0
                 r == pixcmapAddBlackOrWhite(cmap, color)
             IN  [pixd |-> pixSetAllArbitrary(pixd, r.index),
                  pixs |-> [pixs EXCEPT !.cmap = r.cmap]]
        ELSE IF d = 1 /\ incolor = L_BRING_IN_WHITE
               THEN [pixd |-> pixClearAll(pixd), pixs |-> pixs]
               ELSE [pixd |-> pixSetAll(pixd), pixs |-> pixs]

\* SampledInit with a dest of 8 bpp whatever the depth of the source.
SampledInit_Depth8(pixs, incolor) ==
  LET pixd == [pixCreateTemplate(pixs) EXCEPT !.d = 8]
      cmap == pixGetColormap(pixs)
      d == pixs.d
  IN  IF cmap # NULL
        THEN LET color == IF incolor = L_BRING_IN_WHITE THEN 1 ELSE 0
                 r == pixcmapAddBlackOrWhite(cmap, color)
             IN  [pixd |-> pixSetAllArbitrary(pixd, r.index),
                  pixs |-> [pixs EXCEPT !.cmap = r.cmap]]
        ELSE IF (d = 1 /\ incolor = L_BRING_IN_WHITE)
                  \/ (d > 1 /\ incolor = L_BRING_IN_BLACK)
               THEN [pixd |-> pixClearAll(pixd), pixs |-> pixs]
               ELSE [pixd |-> pixSetAll(pixd), pixs |-> pixs]

\* The dest image of pixProjectiveSampled after its initialisation to the
\* color brought in from outside, with the source as that leaves it.
SampledInit(pixs, incolor) ==
  LET pixd == pixCreateTemplate(pixs)
      cmap == pixGetColormap(pixs)
      d == pixs.d
  IN  IF cmap # NULL
        THEN LET color == IF incolor = L_BRING_IN_WHITE THEN 1 ELSE 0
                 r == pixcmapAddBlackOrWhite(cmap, color)
             IN  [pixd |-> pixSetAllArbitrary(pixd, r.index),
                  pixs |-> [pixs EXCEPT !.cmap = r.cmap]]
        ELSE IF (d = 1 /\ incolor = L_BRING_IN_WHITE)
                  \/ (d > 1 /\ incolor = L_BRING_IN_BLACK)
               THEN [pixd |-> pixClearAll(pixd), pixs |-> pixs]
               ELSE [pixd |-> pixSetAll(pixd), pixs |-> pixs]

\* What a call leaves behind: the image returned (NULL on error), the source
\* image after the call, and the pixel passes that ran.  What a call meets
\* and does not control is its last argument env: env.ub the integer a cast
\* of a non-finite float yields, env.allocs the number of CALLOCs that
\* succeed, env.uv the value an uninitialized vc pointer holds, env.gp the
\* point ptaGetPt leaves behind for an index out of range.
Failure(pixs) == [pixd |-> NULL, pixs |-> pixs, pass |-> <<>>]

\* pixProjectiveSampled after its argument checks: the scan (SampledPass) on
\* the images the initialisation leaves (init).
SampledPass(pixs, init, vc, env) ==
  [pixd |-> [init.pixd EXCEPT
               !.data = SampledScan(init.pixs, init.pixd, vc, env.ub)],
   pixs |-> init.pixs,
   pass |-> <<[kind |-> "sampled", d |-> pixs.d, w |-> pixs.w,
               h |-> pixs.h, cmapped |-> HasCmap(pixs),
               border |-> init.pixd.data[0][0], init |-> init.pixd.data,
               vc |-> vc, loop |-> SampledLoop(init.pixs, vc, env.ub)]>>]

SampledBody(pixs, vc, incolor, env) ==
  SampledPass(pixs, SampledInit(pixs, incolor), vc, env)

\* pixProjectiveSampled with the depth check its error message words:
\* "depth not 1, 2, 4, 8 or 16".
pixProjectiveSampled_Accept16(pixs, vc, incolor, env) ==
  IF pixs = NULL THEN Failure(pixs)
  ELSE IF vc = NULL THEN Failure(pixs)
  ELSE IF incolor # L_BRING_IN_WHITE /\ incolor # L_BRING_IN_BLACK
    THEN Failure(pixs)
  ELSE IF pixs.d # 1 /\ pixs.d # 2 /\ pixs.d # 4 /\ pixs.d # 8 /\ pixs.d # 16
          /\ pixs.d # 32
    THEN Failure(pixs)
  ELSE SampledBody(pixs, vc, incolor, env)

pixProjectiveSampled(pixs, vc, incolor, env) ==
  IF pixs = NULL THEN Failure(pixs)
  ELSE IF vc = NULL THEN Failure(pixs)
  ELSE IF incolor # L_BRING_IN_WHITE /\ incolor # L_BRING_IN_BLACK
    THEN Failure(pixs)
  ELSE IF pixs.d # 1 /\ pixs.d # 2 /\ pixs.d # 4 /\ pixs.d # 8 /\ pixs.d # 32
    THEN Failure(pixs)
  ELSE SampledBody(pixs, vc, incolor, env)

(***************************************************************************)
(* Interpolated projective image transformation.                           *)
(***************************************************************************)
\* projectiveXformPt(vc, x, y, &xp, &yp): the point as the fractions
\* xn / den and yn / den with den > 0; finite is FALSE when the denominator
\* of the transform is zero and the float results are infinite or NaN.
projectiveXformPt(vc, x, y) ==
  LET den == Denom(vc, x, y)
      sgn == IF den < 0 THEN -1 ELSE 1
  IN  [finite |-> den # 0,
       xn |-> sgn * XNum(vc, x, y),
       yn |-> sgn * YNum(vc, x, y),
       den |-> sgn * den]

\* One channel of the area weighted sum of the four source pixels around the
\* point pt; corner[x, y] is the channel of the source pixel at (x, y).  A
\* corner outside the source takes the border value instead.
Interpolate(corner, w, h, pt, borderval) ==
  IF ~pt.finite THEN borderval
  ELSE
    LET D == pt.den
        x0 == pt.xn \div D
        y0 == pt.yn \div D
        fx == pt.xn - x0 * D
        fy == pt.yn - y0 * D
        at(x, y) == IF x < 0 \/ y < 0 \/ x >= w \/ y >= h
                      THEN borderval ELSE corner[x, y]
        sum == (D - fx) * (D - fy) * at(x0, y0)
               + fx * (D - fy) * at(x0 + 1, y0)
               + (D - fx) * fy * at(x0, y0 + 1)
               + fx * fy * at(x0 + 1, y0 + 1)
        val == (2 * sum + D * D) \div (2 * D * D)
    IN  IF val > 255 THEN 255 ELSE IF val < 0 THEN 0 ELSE val

linearInterpolatePixelGray(datas, w, h, pt, grayval) ==
  LET corner == [x \in 0 .. (w - 1), y \in 0 .. (h - 1) |-> datas[y][x]]
  IN  Interpolate(corner, w, h, pt, grayval)

linearInterpolatePixelColor(datas, w, h, pt, colorval) ==
  LET channel(k) == [x \in 0 .. (w - 1), y \in 0 .. (h - 1) |-> datas[y][x][k]]
      red == channel(1)
      green == channel(2)
      blue == channel(3)
      alpha == channel(4)
  IN  Rgba(Interpolate(red, w, h, pt, colorval[1]),
           Interpolate(green, w, h, pt, colorval[2]),
           Interpolate(blue, w, h, pt, colorval[3]),
           Interpolate(alpha, w, h, pt, colorval[4]))

\* colorval is the l_uint32 with the bytes colorval[1] .. colorval[4].
pixProjectiveColor(pixs, vc, colorval) ==
  IF pixs = NULL THEN Failure(pixs)
  ELSE IF pixs.d # 32 THEN Failure(pixs)
  ELSE IF vc = NULL THEN Failure(pixs)
  ELSE LET pixd == pixSetAllArbitrary(pixCreateTemplate(pixs), colorval)
       IN  [pixd |-> [pixd EXCEPT !.data =
                        [i \in Rows(pixs) |-> [j \in Cols(pixs) |->
                           linearInterpolatePixelColor(pixs.data, pixs.w, pixs.h,
                              projectiveXformPt(vc, j, i), colorval)]]],
            pixs |-> pixs,
            pass |-> <<[kind |-> "color", d |-> pixs.d, w |-> pixs.w,
                        h |-> pixs.h, cmapped |-> HasCmap(pixs),
                        border |-> colorval, init |-> pixd.data,
                        vc |-> vc, loop |-> InterpolatedLoop(pixs)]>>]

\* grayval is an l_uint8.
pixProjectiveGray(pixs, vc, grayval) ==
  IF pixs = NULL THEN Failure(pixs)
  ELSE IF pixs.d # 8 THEN Failure(pixs)
  ELSE IF vc = NULL THEN Failure(pixs)
  ELSE LET pixd == pixSetAllArbitrary(pixCreateTemplate(pixs), grayval)
       IN  [pixd |-> [pixd EXCEPT !.data =
                        [i \in Rows(pixs) |-> [j \in Cols(pixs) |->
                           SET_DATA_BYTE(pixd.data[i], j,
                              linearInterpolatePixelGray(pixs.data, pixs.w, pixs.h,
                                 projectiveXformPt(vc, j, i), grayval))[j]]]],
            pixs |-> pixs,
            pass |-> <<[kind |-> "gray", d |-> pixs.d, w |-> pixs.w,
                        h |-> pixs.h, cmapped |-> HasCmap(pixs),
                        border |-> grayval, init |-> pixd.data,
                        vc |-> vc, loop |-> InterpolatedLoop(pixs)]>>]

\* Whether some entry of a color map array is not a gray.
CmapHasColor(array) ==
  \E k \in 1 .. Len(array) : array[k][1] # array[k][2] \/ array[k][2] # array[k][3]

pixClone(pix) == pix

\* pixRemoveColormap(pixs, REMOVE_CMAP_BASED_ON_SRC): a clone of an image
\* without color map; else the 32 bpp rgb image of the colors when the map
\* has color, the 8 bpp image of the gray values when it has none.
pixRemoveColormap(pixs) ==
  IF pixs.cmap = NULL THEN pixClone(pixs)
  ELSE IF CmapHasColor(pixs.cmap.array)
    THEN [w |-> pixs.w, h |-> pixs.h, d |-> 32, cmap |-> NULL,
          data |-> [i \in Rows(pixs) |-> [j \in Cols(pixs) |->
                      LET c == pixs.cmap.array[pixs.data[i][j] + 1]
                      IN  Rgba(c[1], c[2], c[3], 0)]]]
    ELSE [w |-> pixs.w, h |-> pixs.h, d |-> 8, cmap |-> NULL,
          data |-> [i \in Rows(pixs) |-> [j \in Cols(pixs) |->
                      pixs.cmap.array[pixs.data[i][j] + 1][1]]]]

\* pixConvertTo8(pixs, FALSE) of an image of depth 1, 2, 4 or 8 without
\* color map: 1 bpp 0 -> 255, 1 -> 0; 2 bpp val * 0x55; 4 bpp val * 0x11.
pixConvertTo8(pixs) ==
  [w |-> pixs.w, h |-> pixs.h, d |-> 8, cmap |-> NULL,
   data |-> [i \in Rows(pixs) |-> [j \in Cols(pixs) |->
               LET v == pixs.data[i][j]
               IN  CASE pixs.d = 1 -> IF v = 0 THEN 255 ELSE 0
                     [] pixs.d = 2 -> v * 85
                     [] pixs.d = 4 -> v * 17
                     [] OTHER -> v]]]

\* The l_uint32 values 0, 255 and 0xffffff00, and the conversion of an
\* l_uint32 to the l_uint8 parameter of the gray functions.
Color0 == Rgba(0, 0, 0, 0)
Color255 == Rgba(0, 0, 0, 255)
ColorFFFFFF00 == Rgba(255, 255, 255, 0)
ToUint8(colorval) == colorval[4]

\* The image pixt2 made of pixt1: unpacked to 8 bpp if necessary.
Unpack(pixt1) ==
  IF pixGetDepth(pixt1) < 8 THEN pixConvertTo8(pixt1) ELSE pixClone(pixt1)

\* Normalize with 0xffffffff for white at 32 bpp.
Normalize_WhiteAllOnes(pixs, incolor) ==
  LET pixt2 == Unpack(pixRemoveColormap(pixs))
      d == pixGetDepth(pixt2)
  IN  [pixt2 |-> pixt2, d |-> d,
       colorval |-> IF incolor = L_BRING_IN_WHITE
                      THEN IF d = 8 THEN Color255 ELSE Rgba(255, 255, 255, 255)
                      ELSE Color0]

\* Normalize with the two white values the wrong way round.
Normalize_WhiteSwapped(pixs, incolor) ==
  LET pixt2 == Unpack(pixRemoveColormap(pixs))
      d == pixGetDepth(pixt2)
  IN  [pixt2 |-> pixt2, d |-> d,
       colorval |-> IF incolor = L_BRING_IN_WHITE
                      THEN IF d = 8 THEN ColorFFFFFF00 ELSE Color255
                      ELSE Color0]

\* The part of pixProjective and pixProjectivePta after the argument checks
\* and the 1 bpp case: the image handed to the gray or color function and
\* the color to bring in from the edges.
Normalize(pixs, incolor) ==
  LET pixt2 == Unpack(pixRemoveColormap(pixs))
      d == pixGetDepth(pixt2)
  IN  [pixt2 |-> pixt2, d |-> d,
       colorval |-> IF incolor = L_BRING_IN_WHITE
                      THEN IF d = 8 THEN Color255 ELSE ColorFFFFFF00
                      ELSE Color0]

\* The call of the gray or the color function on the normalized image n.
Dispatch(n, vc) ==
  IF n.d = 8
    THEN pixProjectiveGray(n.pixt2, vc, ToUint8(n.colorval))
    ELSE pixProjectiveColor(n.pixt2, vc, n.colorval)

pixProjective(pixs, vc, incolor, env) ==
  IF pixs = NULL THEN Failure(pixs)
  ELSE IF vc = NULL THEN Failure(pixs)
  ELSE IF pixGetDepth(pixs) = 1 THEN pixProjectiveSampled(pixs, vc, incolor, env)
  ELSE [Dispatch(Normalize(pixs, incolor), vc) EXCEPT !.pixs = pixs]

(***************************************************************************)
(* Projective coordinate transformation.                                   *)
(***************************************************************************)
\* One row of an elimination step on the augmented 8 x 9 matrix:
\* (piv * row - mik * rowk) / prev, the division being exact.
RowStep(row, rowk, piv, mik, prev) ==
  << (piv * row[1] - mik * rowk[1]) \div prev,
     (piv * row[2] - mik * rowk[2]) \div prev,
     (piv * row[3] - mik * rowk[3]) \div prev,
     (piv * row[4] - mik * rowk[4]) \div prev,
     (piv * row[5] - mik * rowk[5]) \div prev,
     (piv * row[6] - mik * rowk[6]) \div prev,
     (piv * row[7] - mik * rowk[7]) \div prev,
     (piv * row[8] - mik * rowk[8]) \div prev,
     (piv * row[9] - mik * rowk[9]) \div prev >>

SwapRows(M, r, k) ==
  LET row(i) == IF i = k THEN M[r] ELSE IF i = r THEN M[k] ELSE M[i]
  IN  << row(1), row(2), row(3), row(4), row(5), row(6), row(7), row(8) >>

\* Gauss-Jordan elimination of column k .. 8 of the augmented matrix M, in
\* integers: after column k every diagonal entry done so far equals the
\* pivot of column k.  singular when a column has no pivot left.  The pivot
\* row of column k is the first of the rows k .. 8 with a nonzero entry
\* there (Candidates, PivotRow); EliminateColumn clears column k of the
\* matrix S that has the pivot row in place.
Candidates(M, k) == {r \in k .. 8 : M[r][k] # 0}
PivotRow(cand) == CHOOSE c \in cand : \A c2 \in cand : c <= c2

EliminateColumn(S, k, prev) ==
  LET row(i) == IF i = k THEN S[k]
                ELSE RowStep(S[i], S[k], S[k][k], S[i][k], prev)
  IN  << row(1), row(2), row(3), row(4), row(5), row(6), row(7), row(8) >>

RECURSIVE Eliminate(_, _, _)
Eliminate(M, k, prev) ==
  IF k > 8 THEN [singular |-> FALSE, M |-> M, det |-> prev]
  ELSE IF Candidates(M, k) = {} THEN [singular |-> TRUE, M |-> M, det |-> 0]
  ELSE Eliminate(
         EliminateColumn(SwapRows(M, PivotRow(Candidates(M, k)), k), k, prev),
         k + 1, M[PivotRow(Candidates(M, k))][k])

\* gaussjordan(a, b, 8): solves a c = b, leaving c in b; returns 1 for a
\* singular matrix, and then b is left unsolved.  a and b hold integers
\* here, and the solution is the vector num / den, den > 0, read off the
\* eliminated matrix e (Solved, Signed).
Augmented(a, b) ==
  LET aug(i) == a[i] \o << b[i] >>
  IN  << aug(1), aug(2), aug(3), aug(4), aug(5), aug(6), aug(7), aug(8) >>

Solved(e, b, sgn) ==
  LET sol(i) == sgn * e.M[i][9]
  IN  IF e.singular
        THEN [ret |-> 1, b |-> [num |-> b, den |-> 1]]
        ELSE [ret |-> 0,
              b |-> [num |-> << sol(1), sol(2), sol(3), sol(4),
                                sol(5), sol(6), sol(7), sol(8) >>,
                     den |-> sgn * e.det]]

Signed(e, b) == Solved(e, b, IF e.det < 0 THEN -1 ELSE 1)

gaussjordan(a, b) == Signed(Eliminate(Augmented(a, b), 1, 1), b)

\* ptaGetPt(pta, index, &x, &y): nothing is stored for an index out of
\* range, and the caller then reads what its variables held before (gp).
ptaGetCount(pta) == pta.n
ptaGetPt(pta, index, gp) ==
  IF index < 0 \/ index >= pta.n THEN gp ELSE pta.pts[index + 1]

\* The matrix a and the vector b of getProjectiveXformCoeffs before the
\* elimination: two rows for each of the four points.
BuildSystem(ptas, ptad, gp) ==
  LET s(i) == ptaGetPt(ptas, i, gp)
      t(i) == ptaGetPt(ptad, i, gp)
      xrow(i) == << s(i)[1], s(i)[2], 1, 0, 0, 0,
                    -s(i)[1] * t(i)[1], -s(i)[2] * t(i)[1] >>
      yrow(i) == << 0, 0, 0, s(i)[1], s(i)[2], 1,
                    -s(i)[1] * t(i)[2], -s(i)[2] * t(i)[2] >>
  IN  [a |-> << xrow(0), yrow(0), xrow(1), yrow(1),
                xrow(2), yrow(2), xrow(3), yrow(3) >>,
       b |-> << t(0)[1], t(0)[2], t(1)[1], t(1)[2],
                t(2)[1], t(2)[2], t(3)[1], t(3)[2] >>]

\* getProjectiveXformCoeffs(ptas, ptad, &vc).  pvc is NULL or the address of
\* the caller's vector.  The result: the value returned, whether *pvc was
\* stored and with what vector, the scratch rows still allocated at the
\* return, and what gaussjordan returned (-1 if it was not called).
\* XformSolve is the function from the allocation of the rows on, for the
\* system sys it has built; XformReturn its return after gaussjordan.
AddrOfVc == [addr |-> "vc"]
XformNotCalled == [ret |-> -1, set |-> FALSE, vc |-> NULL, rowsLive |-> 0, gj |-> -1]
XformFailure == [ret |-> 1, set |-> FALSE, vc |-> NULL, rowsLive |-> 0, gj |-> -1]

\* The CALLOCs of a call: of b, and of the NumRows rows of a.
NumRows == 8
NumAllocs == NumRows + 1

XformReturn(g) ==
  [ret |-> 0, set |-> TRUE, vc |-> g.b, rowsLive |-> 0, gj |-> g.ret]

XformSolve(sys, env) ==
  IF env.allocs < NumAllocs
    THEN [ret |-> 1, set |-> TRUE, vc |-> [num |-> sys.b, den |-> 1],
          rowsLive |-> env.allocs - 1, gj |-> -1]
    ELSE XformReturn(gaussjordan(sys.a, sys.b))

getProjectiveXformCoeffs(ptas, ptad, pvc, env) ==
  IF ptas = NULL THEN XformFailure
  ELSE IF ptad = NULL THEN XformFailure
  ELSE IF pvc = NULL THEN XformFailure
  ELSE IF env.allocs < 1 THEN XformFailure
  ELSE XformSolve(BuildSystem(ptas, ptad, env.gp), env)

\* The lines "getProjectiveXformCoeffs(ptad, ptas, &vc);" of the functions
\* that take points: the vector vc holds afterwards.
SolvedVc(xf, env) == IF xf.set THEN xf.vc ELSE env.uv

\* What a call of a function that takes points leaves behind: as Failure,
\* and what its call of getProjectiveXformCoeffs returned.
PtaFailure(pixs) ==
  [pixd |-> NULL, pixs |-> pixs, pass |-> <<>>, xf |-> XformNotCalled]
WithXform(r, xf) == [pixd |-> r.pixd, pixs |-> r.pixs, pass |-> r.pass, xf |-> xf]

\* The transform applied with the vector getProjectiveXformCoeffs left.
ApplySampled(pixs, xf, incolor, env) ==
  WithXform(pixProjectiveSampled(pixs, SolvedVc(xf, env), incolor, env), xf)
ApplyColor(pixs, xf, colorval, env) ==
  WithXform(pixProjectiveColor(pixs, SolvedVc(xf, env), colorval), xf)
ApplyGray(pixs, xf, grayval, env) ==
  WithXform(pixProjectiveGray(pixs, SolvedVc(xf, env), grayval), xf)

pixProjectiveSampledPta(pixs, ptad, ptas, incolor, env) ==
  IF pixs = NULL THEN PtaFailure(pixs)
  ELSE IF ptas = NULL THEN PtaFailure(pixs)
  ELSE IF ptad = NULL THEN PtaFailure(pixs)
  ELSE IF incolor # L_BRING_IN_WHITE /\ incolor # L_BRING_IN_BLACK
    THEN PtaFailure(pixs)
  ELSE IF ptaGetCount(ptas) # 4 THEN PtaFailure(pixs)
  ELSE IF ptaGetCount(ptad) # 4 THEN PtaFailure(pixs)
  ELSE ApplySampled(pixs, getProjectiveXformCoeffs(ptad, ptas, AddrOfVc, env),
          incolor, env)

pixProjectivePtaColor(pixs, ptad, ptas, colorval, env) ==
  IF pixs = NULL THEN PtaFailure(pixs)
  ELSE IF ptas = NULL THEN PtaFailure(pixs)
  ELSE IF ptad = NULL THEN PtaFailure(pixs)
  ELSE IF pixGetDepth(pixs) # 32 THEN PtaFailure(pixs)
  ELSE IF ptaGetCount(ptas) # 4 THEN PtaFailure(pixs)
  ELSE IF ptaGetCount(ptad) # 4 THEN PtaFailure(pixs)
  ELSE ApplyColor(pixs, getProjectiveXformCoeffs(ptad, ptas, AddrOfVc, env),
          colorval, env)

pixProjectivePtaGray(pixs, ptad, ptas, grayval, env) ==
  IF pixs = NULL THEN PtaFailure(pixs)
  ELSE IF ptas = NULL THEN PtaFailure(pixs)
  ELSE IF ptad = NULL THEN PtaFailure(pixs)
  ELSE IF pixGetDepth(pixs) # 8 THEN PtaFailure(pixs)
  ELSE IF ptaGetCount(ptas) # 4 THEN PtaFailure(pixs)
  ELSE IF ptaGetCount(ptad) # 4 THEN PtaFailure(pixs)
  ELSE ApplyGray(pixs, getProjectiveXformCoeffs(ptad, ptas, AddrOfVc, env),
          grayval, env)

DispatchPta(n, ptad, ptas, env) ==
  IF n.d = 8
    THEN pixProjectivePtaGray(n.pixt2, ptad, ptas, ToUint8(n.colorval), env)
    ELSE pixProjectivePtaColor(n.pixt2, ptad, ptas, n.colorval, env)

pixProjectivePta(pixs, ptad, ptas, incolor, env) ==
  IF pixs = NULL THEN PtaFailure(pixs)
  ELSE IF ptas = NULL THEN PtaFailure(pixs)
  ELSE IF ptad = NULL THEN PtaFailure(pixs)
  ELSE IF incolor # L_BRING_IN_WHITE /\ incolor # L_BRING_IN_BLACK
    THEN PtaFailure(pixs)
  ELSE IF ptaGetCount(ptas) # 4 THEN PtaFailure(pixs)
  ELSE IF ptaGetCount(ptad) # 4 THEN PtaFailure(pixs)
  ELSE IF pixGetDepth(pixs) = 1
    THEN pixProjectiveSampledPta(pixs, ptad, ptas, incolor, env)
  ELSE [DispatchPta(Normalize(pixs, incolor), ptad, ptas, env)
          EXCEPT !.pixs = pixs]

(***************************************************************************)
(* The arguments of the calls.                                             *)
(***************************************************************************)
Depths == {1, 2, 4, 8, 16, 32}
CmapDepths == {1, 2, 4, 8}

\* Pixel number k of an image of depth d whose pixels take m values.
PixelOf(d, m, pat, k) ==
  LET v == IF pat = "ones" THEN m - 1 ELSE (k * 85) % m
  IN  IF d = 32 THEN Rgba(v, (v + 1) % 256, (v + 2) % 256, (v + 3) % 256) ELSE v

Raster(w, h, d, m, pat) ==
  [i \in 0 .. (h - 1) |-> [j \in 0 .. (w - 1) |-> PixelOf(d, m, pat, i * w + j)]]

PlainImages ==
  { [w |-> w, h |-> h, d |-> d, cmap |-> NULL,
     data |-> Raster(w, h, d, IF d = 32 THEN 256 ELSE Pow2(d), pat)] :
       w \in 1 .. MaxW, h \in 1 .. MaxH, d \in Depths, pat \in {"ramp", "ones"} }

\* Color maps with room for one more entry, and images whose pixels index them.
CmapArrays ==
  { <<Black>>, <<White>>, <<Red>>, <<White, Black>>, <<Red, White>>, <<Black, Red>> }

Cmaps(d) == { [n |-> Len(a), array |-> a] : a \in {c \in CmapArrays : Len(c) < Pow2(d)} }

CmappedImages ==
  UNION { { [w |-> w, h |-> h, d |-> d, cmap |-> c,
             data |-> Raster(w, h, d, c.n, "ramp")] :
               w \in 1 .. MaxW, h \in 1 .. MaxH, c \in Cmaps(d) } : d \in CmapDepths }

Images == PlainImages \cup CmappedImages

\* Coefficient vectors: shifts of the identity and of the transposition by
\* whole and half pixels, and perspective maps, some with a zero denominator.
Shifts == (-MaxShift) .. MaxShift
ShiftPairs == { <<t, 0>> : t \in Shifts } \cup { <<0, t>> : t \in Shifts }
                \cup { <<t, t>> : t \in Shifts }

AffineVcs ==
  { [num |-> <<a * q, b * q, t[1], b * q, a * q, t[2], 0, 0>>, den |-> q] :
      a \in {0, 1}, b \in {0, 1}, t \in ShiftPairs, q \in {1, 2} }

PerspectiveVcs ==
  { [num |-> <<1, 0, t, 0, 1, 0, g[1], g[2]>>, den |-> 1] :
      t \in {-1, 0}, g \in ((-1 .. 1) \X (-1 .. 1)) \ {<<0, 0>>} }

VcSet == { v \in AffineVcs : v.num[1] # v.num[2] } \cup PerspectiveVcs

IdentityVc == [num |-> <<1, 0, 0, 0, 1, 0, 0, 0>>, den |-> 1]

Incolors == {0, L_BRING_IN_WHITE, L_BRING_IN_BLACK}

\* Point lists: PTA with its count n and its points.
Pta(pts) == [n |-> Len(pts), pts |-> pts]
Square == Pta(<< <<0, 0>>, <<1, 0>>, <<1, 1>>, <<0, 1>> >>)
ShiftedSquare == Pta(<< <<1, 0>>, <<2, 0>>, <<2, 1>>, <<1, 1>> >>)
Trapezoid == Pta(<< <<0, 0>>, <<2, 0>>, <<1, 1>>, <<0, 1>> >>)
Collinear == Pta(<< <<0, 0>>, <<1, 0>>, <<2, 0>>, <<0, 1>> >>)
ThreePoints == Pta(<< <<0, 0>>, <<1, 0>>, <<1, 1>> >>)
PtaSet == {Square, ShiftedSquare, Trapezoid, Collinear, ThreePoints}

\* What a call can meet.
UBOutcomes == {-1, 0, MaxW + MaxH}
UninitVcs == {NULL, [num |-> <<0, 0, 0, 0, 0, 0, 0, 0>>, den |-> 1]}
GarbagePts == {<<0, 0>>, <<1, 2>>}
DefaultEnv == [ub |-> 0, allocs |-> NumAllocs, uv |-> NULL, gp |-> <<0, 0>>]

\* The outcomes of the undefined cast that a call on pixs with vc can meet.
UbChoices(p, v) ==
  IF p # NULL /\ v # NULL
     /\ \E i \in Rows(p), j \in Cols(p) : Denom(v, j, i) = 0
    THEN UBOutcomes ELSE {0}

CoefEnvs(p, v) == { [DefaultEnv EXCEPT !.ub = u] : u \in UbChoices(p, v) }

PtaEnvs ==
  { [DefaultEnv EXCEPT !.ub = u] : u \in UBOutcomes }
    \cup { [DefaultEnv EXCEPT !.allocs = 1] }
    \cup { [DefaultEnv EXCEPT !.allocs = 0, !.uv = u] : u \in UninitVcs }

XformEnvs ==
  { [DefaultEnv EXCEPT !.allocs = a, !.gp = g] :
      a \in 0 .. NumAllocs, g \in GarbagePts }

(***************************************************************************)
(* The calls.                                                              *)
(***************************************************************************)
VARIABLES
  op,        \* the function called
  pc,        \* "call" before the call, "return" after it
  pixs,      \* argument: the source image, or NULL
  vc,        \* argument: the coefficient vector, or NULL
  ptas,      \* argument: the points of the initial space, or NULL
  ptad,      \* argument: the points of the final space, or NULL
  incolor,   \* argument: L_BRING_IN_WHITE, L_BRING_IN_BLACK or another value
  colorval,  \* argument: colorval or grayval of the gray and color functions
  env,       \* what the call met
  pixd,      \* the image returned, NULL on error
  pixsOut,   \* the source image after the call
  pass,      \* the pixel passes that ran
  xf         \* what getProjectiveXformCoeffs returned and stored

vars == <<op, pc, pixs, vc, ptas, ptad, incolor, colorval, env,
          pixd, pixsOut, pass, xf>>

args == <<op, pixs, vc, ptas, ptad, incolor, colorval>>

CoefOps == {"pixProjectiveSampled", "pixProjective"}
ColorvalOps == {"pixProjectiveGray", "pixProjectiveColor"}
PtaOps == {"pixProjectiveSampledPta", "pixProjectivePta"}
PtaColorvalOps == {"pixProjectivePtaGray", "pixProjectivePtaColor"}
ImageOps == CoefOps \cup ColorvalOps \cup PtaOps \cup PtaColorvalOps

Grayvals == {0, 255}
Colorvals == {Color0, ColorFFFFFF00}
ColorvalsOf(o) ==
  IF o \in {"pixProjectiveGray", "pixProjectivePtaGray"} THEN Grayvals ELSE Colorvals

\* The images of the calls that take points.
PtaImages == { p \in Images : p.w = MaxW /\ p.h = MaxH }

Init ==
  /\ pc = "call"
  /\ env = DefaultEnv
  /\ pixd = NULL
  /\ pass = <<>>
  /\ xf = XformNotCalled
  /\ \/ /\ op \in CoefOps
        /\ pixs \in Images \cup {NULL}
        /\ vc \in VcSet \cup {NULL}
        /\ incolor \in Incolors
        /\ colorval = 0
        /\ ptas = NULL /\ ptad = NULL
     \/ /\ op \in ColorvalOps
        /\ pixs \in Images \cup {NULL}
        /\ vc \in VcSet \cup {NULL}
        /\ incolor = 0
        /\ colorval \in ColorvalsOf(op)
        /\ ptas = NULL /\ ptad = NULL
     \/ /\ op \in PtaOps
        /\ ptas \in PtaSet \cup {NULL}
        /\ ptad \in PtaSet \cup {NULL}
        /\ pixs \in PtaImages \cup {NULL}
        /\ incolor \in Incolors
        /\ colorval = 0
        /\ vc = NULL
     \/ /\ op \in PtaColorvalOps
        /\ ptas \in PtaSet \cup {NULL}
        /\ ptad \in PtaSet \cup {NULL}
        /\ pixs \in PtaImages \cup {NULL}
        /\ incolor = 0
        /\ colorval \in ColorvalsOf(op)
        /\ vc = NULL
     \/ /\ op = "getProjectiveXformCoeffs"
        /\ ptas \in PtaSet \cup {NULL}
        /\ ptad \in PtaSet \cup {NULL}
        /\ vc \in {NULL, AddrOfVc}
        /\ pixs = NULL
        /\ incolor = 0
        /\ colorval = 0
  /\ pixsOut = pixs

\* The return of a function that returns an image.
Return(r, e, x) ==
  /\ pc' = "return"
  /\ env' = e
  /\ pixd' = r.pixd
  /\ pixsOut' = r.pixs
  /\ pass' = r.pass
  /\ xf' = x
  /\ UNCHANGED args

\* The return of a function that takes points.
ReturnPta(r, e) == Return(r, e, r.xf)

CallPixProjectiveSampled ==
  /\ pc = "call" /\ op = "pixProjectiveSampled"
  /\ \E e \in CoefEnvs(pixs, vc) :
       Return(pixProjectiveSampled(pixs, vc, incolor, e), e, XformNotCalled)

CallPixProjective ==
  /\ pc = "call" /\ op = "pixProjective"
  /\ \E e \in CoefEnvs(pixs, vc) :
       Return(pixProjective(pixs, vc, incolor, e), e, XformNotCalled)

CallPixProjectiveGray ==
  /\ pc = "call" /\ op = "pixProjectiveGray"
  /\ Return(pixProjectiveGray(pixs, vc, colorval), DefaultEnv, XformNotCalled)

CallPixProjectiveColor ==
  /\ pc = "call" /\ op = "pixProjectiveColor"
  /\ Return(pixProjectiveColor(pixs, vc, colorval), DefaultEnv, XformNotCalled)

CallPixProjectiveSampledPta ==
  /\ pc = "call" /\ op = "pixProjectiveSampledPta"
  /\ \E e \in PtaEnvs :
       ReturnPta(pixProjectiveSampledPta(pixs, ptad, ptas, incolor, e), e)

CallPixProjectivePta ==
  /\ pc = "call" /\ op = "pixProjectivePta"
  /\ \E e \in PtaEnvs :
       ReturnPta(pixProjectivePta(pixs, ptad, ptas, incolor, e), e)

CallPixProjectivePtaGray ==
  /\ pc = "call" /\ op = "pixProjectivePtaGray"
  /\ \E e \in PtaEnvs :
       ReturnPta(pixProjectivePtaGray(pixs, ptad, ptas, colorval, e), e)

CallPixProjectivePtaColor ==
  /\ pc = "call" /\ op = "pixProjectivePtaColor"
  /\ \E e \in PtaEnvs :
       ReturnPta(pixProjectivePtaColor(pixs, ptad, ptas, colorval, e), e)

CallGetProjectiveXformCoeffs ==
  /\ pc = "call" /\ op = "getProjectiveXformCoeffs"
  /\ \E e \in XformEnvs :
       /\ xf' = getProjectiveXformCoeffs(ptas, ptad, vc, e)
       /\ env' = e
       /\ pc' = "return"
       /\ UNCHANGED <<pixd, pixsOut, pass>>
       /\ UNCHANGED args

Next ==
  \/ CallPixProjectiveSampled
  \/ CallPixProjective
  \/ CallPixProjectiveGray
  \/ CallPixProjectiveColor
  \/ CallPixProjectiveSampledPta
  \/ CallPixProjectivePta
  \/ CallPixProjectivePtaGray
  \/ CallPixProjectivePtaColor
  \/ CallGetProjectiveXformCoeffs

Spec == Init /\ [][Next]_vars

(***************************************************************************)
(* Properties.                                                             *)
(***************************************************************************)
Returned == pc = "return"
ValidIncolor == incolor = L_BRING_IN_WHITE \/ incolor = L_BRING_IN_BLACK
InBounds(x, y, w, h) == x >= 0 /\ y >= 0 /\ x < w /\ y < h
PassOf(kinds) == Returned /\ pixd # NULL /\ Len(pass) = 1 /\ pass[1].kind \in kinds

\* C1: pixProjectiveSampled leaves in each dest pixel (j, i) the source pixel
\* at the mapped point (x, y) when that lies in the source, and the value the
\* dest was initialised to when it lies outside, for every depth, border
\* selector and coefficient vector.
C1_SampledCopiesSourcePixel ==
  (Returned /\ op = "pixProjectiveSampled" /\ pixd # NULL) =>
    \A i \in Rows(pixs), j \in Cols(pixs) :
      LET p == projectiveXformSampledPt(vc, j, i, env.ub)
      IN  IF InBounds(p.xp, p.yp, pixs.w, pixs.h)
            THEN pixd.data[i][j] = pixs.data[p.yp][p.xp]
            ELSE pixd.data[i][j] = pass[1].init[i][j]

\* C2: pixProjectiveSampled with the identity coefficients returns the
\* pixels of the source, for every depth and either border selector.
C2_IdentitySampledReproducesSource ==
  (Returned /\ op = "pixProjectiveSampled" /\ pixd # NULL /\ vc = IdentityVc) =>
    pixd.data = pixs.data

\* Whether the vector c solves the equations of the points the call took:
\* a c = b for the system built from them.
IsSolution(c) ==
  LET sys == BuildSystem(ptas, ptad, env.gp)
  IN  \A i \in 1 .. 8 :
        sys.a[i][1] * c.num[1] + sys.a[i][2] * c.num[2] + sys.a[i][3] * c.num[3]
        + sys.a[i][4] * c.num[4] + sys.a[i][5] * c.num[5] + sys.a[i][6] * c.num[6]
        + sys.a[i][7] * c.num[7] + sys.a[i][8] * c.num[8] = sys.b[i] * c.den

\* C3: when gaussjordan reports a singular system getProjectiveXformCoeffs
\* returns nonzero, and it never returns 0 with a vector that does not solve
\* the equations (stated for lists of four points).
C3_SingularSystemReported ==
  (Returned /\ op = "getProjectiveXformCoeffs" /\ ptas # NULL /\ ptad # NULL
     /\ ptaGetCount(ptas) = 4 /\ ptaGetCount(ptad) = 4) =>
    /\ xf.gj = 1 => xf.ret # 0
    /\ xf.ret = 0 => IsSolution(xf.vc)

\* C4: pixProjectiveSampledPta, pixProjectiveSampled, pixProjectivePta and
\* pixProjective return no image for a border selector that is neither
\* L_BRING_IN_WHITE nor L_BRING_IN_BLACK, whatever the depth of the source.
C4_InvalidIncolorRejected ==
  (Returned /\ op \in CoefOps \cup PtaOps /\ ~ValidIncolor) =>
    pixd = NULL /\ pass = <<>>

\* C5: no function that returns an image changes its source image: the
\* pixels and the color map of the source are after the call what they
\* were before it.
C5_SourceUnchanged ==
  (Returned /\ op \in ImageOps) => pixsOut = pixs

\* A raster of w x h pixels that all have the value v.
Uniform(data, w, h, v) ==
  \A i \in 0 .. (h - 1), j \in 0 .. (w - 1) : data[i][j] = v

\* C6 as the specification states it: for a source without color map the
\* dest of pixProjectiveSampled is cleared before the scan for a white border
\* on 1 bpp, and set for a black border on 1 bpp and for any border on a
\* depth above 1.
C6_PrefillAsStated ==
  (PassOf({"sampled"}) /\ ~pass[1].cmapped) =>
    Uniform(pass[1].init, pass[1].w, pass[1].h,
            IF pass[1].d = 1 /\ incolor = L_BRING_IN_WHITE
              THEN AllZeros(pass[1].d) ELSE AllOnes(pass[1].d))

\* C6, amended: for a source without color map the dest of
\* pixProjectiveSampled is cleared (all bits 0) before the scan for a white
\* border on 1 bpp and for a black border on a depth above 1, and set (all
\* bits 1) for a black border on 1 bpp and for a white border on a depth
\* above 1.
C6_PrefillByDepthAndBorder ==
  (PassOf({"sampled"}) /\ ~pass[1].cmapped) =>
    Uniform(pass[1].init, pass[1].w, pass[1].h,
            IF (pass[1].d = 1 /\ incolor = L_BRING_IN_WHITE)
                 \/ (pass[1].d > 1 /\ incolor = L_BRING_IN_BLACK)
              THEN AllZeros(pass[1].d) ELSE AllOnes(pass[1].d))

C6_Witness ==
  /\ PassOf({"sampled"}) /\ ~pass[1].cmapped
  /\ pass[1].d > 1 /\ incolor = L_BRING_IN_BLACK
  /\ Uniform(pass[1].init, pass[1].w, pass[1].h, AllZeros(pass[1].d))

\* The vector of a pass sends every dest pixel to a point outside the source:
\* for the sampled pass the integer point, for the interpolated passes the
\* float point.
SampledAllOutside(ps) ==
  \A i \in 0 .. (ps.h - 1), j \in 0 .. (ps.w - 1) :
    LET p == projectiveXformSampledPt(ps.vc, j, i, env.ub)
    IN  ~InBounds(p.xp, p.yp, ps.w, ps.h)

FloatOutside(pt, w, h) ==
  \/ ~pt.finite
  \/ pt.xn < 0 \/ pt.yn < 0 \/ pt.xn >= w * pt.den \/ pt.yn >= h * pt.den

FloatAllOutside(ps) ==
  \A i \in 0 .. (ps.h - 1), j \in 0 .. (ps.w - 1) :
    FloatOutside(projectiveXformPt(ps.vc, j, i), ps.w, ps.h)

\* The point is finite and a whole pixel or more outside: none of the four
\* pixels around it that have weight lies in the source.
FloatFarOutside(pt, w, h) ==
  /\ pt.finite
  /\ \/ pt.xn <= -pt.den \/ pt.yn <= -pt.den
     \/ pt.xn >= w * pt.den \/ pt.yn >= h * pt.den

FloatAllFarOutside(ps) ==
  \A i \in 0 .. (ps.h - 1), j \in 0 .. (ps.w - 1) :
    FloatFarOutside(projectiveXformPt(ps.vc, j, i), ps.w, ps.h)

\* The border value a call asks for: of the canvas of the sampled pass, and
\* of the gray and color passes.
SampledBorder(d) ==
  IF incolor = L_BRING_IN_WHITE
    THEN IF d = 1 THEN 0 ELSE AllOnes(d)
    ELSE IF d = 1 THEN 1 ELSE AllZeros(d)

InterpolatedBorder(kind) ==
  IF op \in ColorvalOps \cup PtaColorvalOps THEN colorval
  ELSE IF incolor = L_BRING_IN_WHITE
    THEN IF kind = "gray" THEN 255 ELSE Rgba(255, 255, 255, 0)
    ELSE IF kind = "gray" THEN 0 ELSE Rgba(0, 0, 0, 0)

C7_SampledPart ==
  (PassOf({"sampled"}) /\ ~pass[1].cmapped
     /\ (pass[1].d \in {8, 32} \/ (pass[1].d = 1 /\ incolor = L_BRING_IN_WHITE))
     /\ SampledAllOutside(pass[1])) =>
    Uniform(pixd.data, pixd.w, pixd.h, SampledBorder(pass[1].d))

C8_OutputCmapHoldsBorder ==
  (PassOf({"sampled"}) /\ pass[1].cmapped) =>
    LET cm == pixd.cmap
        src == pixs.cmap
    IN  /\ cm # NULL
        /\ cm.n >= src.n
        /\ \A k \in 1 .. src.n : cm.array[k] = src.array[k]
        /\ \E k \in 1 .. cm.n :
             cm.array[k] = IF incolor = L_BRING_IN_WHITE THEN White ELSE Black
        /\ \A i \in Rows(pixd), j \in Cols(pixd) : pixd.data[i][j] < cm.n

\* C9: the image of a sampled pass has the depth, width and height of the
\* source; the image of a gray or color pass has the width and height of the
\* image the pass ran on, which are those of the source.
C9_GeometryPreserved ==
  (Returned /\ op \in ImageOps /\ pixd # NULL) =>
    /\ Len(pass) = 1
    /\ pixd.w = pixs.w /\ pixd.h = pixs.h
    /\ pixd.w = pass[1].w /\ pixd.h = pass[1].h
    /\ pass[1].kind = "sampled" => pixd.d = pixs.d /\ pixs.d \in {1, 2, 4, 8, 32}
    /\ Rows(pixd) = DOMAIN pixd.data
    /\ \A i \in Rows(pixd) : Cols(pixd) = DOMAIN pixd.data[i]

C9_Witness ==
  /\ Returned /\ op = "pixProjective" /\ pixd # NULL
  /\ pixs.w = MaxW /\ pixs.h = 1 /\ pixs.d = 2 /\ pixd.d = 8
  /\ pixd.w = MaxW /\ pixd.h = 1

\* The arguments C10 speaks of.
AbsentArgument ==
  \/ pixs = NULL
  \/ op \in CoefOps \cup ColorvalOps /\ vc = NULL
  \/ op \in PtaOps \cup PtaColorvalOps /\ (ptas = NULL \/ ptad = NULL)

BadCount ==
  /\ op \in PtaOps \cup PtaColorvalOps
  /\ ptas # NULL /\ ptad # NULL
  /\ (ptas.n # 4 \/ ptad.n # 4)

UnsupportedDepth ==
  /\ pixs # NULL
  /\ \/ op \in {"pixProjectiveGray", "pixProjectivePtaGray"} /\ pixs.d # 8
     \/ op \in {"pixProjectiveColor", "pixProjectivePtaColor"} /\ pixs.d # 32
     \/ op \in CoefOps \cup PtaOps /\ pixs.d \notin {1, 2, 4, 8, 32}

C11_PassOnNormalizedImage ==
  (Returned /\ op \in {"pixProjective", "pixProjectivePta"}
     /\ pixs # NULL /\ pixd # NULL /\ pixs.d > 1) =>
    /\ Len(pass) = 1
    /\ pass[1].kind \in {"gray", "color"}
    /\ ~pass[1].cmapped
    /\ pass[1].kind = "gray" =>
         /\ pass[1].d = 8
         /\ pass[1].border \in {0, 255}
         /\ incolor = L_BRING_IN_WHITE => pass[1].border = 255
         /\ incolor = L_BRING_IN_BLACK => pass[1].border = 0
    /\ pass[1].kind = "color" =>
         /\ pass[1].d = 32
         /\ pass[1].border \in {Rgba(0, 0, 0, 0), Rgba(255, 255, 255, 0)}
         /\ incolor = L_BRING_IN_WHITE => pass[1].border = Rgba(255, 255, 255, 0)
         /\ incolor = L_BRING_IN_BLACK => pass[1].border = Rgba(0, 0, 0, 0)

C11_Witness ==
  /\ Returned /\ op = "pixProjectivePta" /\ pixs # NULL /\ pixd # NULL
  /\ pixs.d = 2 /\ HasCmap(pixs) /\ incolor = L_BRING_IN_WHITE
  /\ Len(pass) = 1 /\ pass[1].kind = "color" /\ pass[1].d = 32
  /\ pass[1].border = Rgba(255, 255, 255, 0)

\* C12: when the call of getProjectiveXformCoeffs in pixProjectiveSampledPta,
\* pixProjectivePtaGray, pixProjectivePtaColor or pixProjectivePta fails (it
\* returns nonzero, or gaussjordan reports a singular system), the function
\* returns no image and runs no pixel pass.
C12_XformFailureStopsTransform ==
  (Returned /\ op \in PtaOps \cup PtaColorvalOps
     /\ (xf.ret = 1 \/ xf.gj = 1)) =>
    pixd = NULL /\ pass = <<>>

\* The integer k is a nearest integer to n / d (d > 0), and n / d rounds to
\* -1: it lies strictly between -3/2 and -1/2.
IsNearest(k, n, d) ==
  /\ 2 * (k * d - n) <= d
  /\ 2 * (n - k * d) <= d
RoundsToMinusOne(n, d) == -3 * d < 2 * n /\ 2 * n < -d

\* C13: for every dest pixel whose denominator is not zero the point
\* projectiveXformSampledPt returns is the integer point nearest to the
\* exact mapped point, also where that is negative; and a dest pixel whose
\* exact mapped coordinate rounds to -1 is out of bounds for
\* pixProjectiveSampled and keeps the value the dest was initialised to.
C13_NearestPixelForNegatives ==
  (PassOf({"sampled"}) /\ op = "pixProjectiveSampled") =>
    \A i \in Rows(pixs), j \in Cols(pixs) :
      LET e == projectiveXformPt(vc, j, i)
          p == projectiveXformSampledPt(vc, j, i, env.ub)
      IN  e.finite =>
            /\ IsNearest(p.xp, e.xn, e.den)
            /\ IsNearest(p.yp, e.yn, e.den)
            /\ (RoundsToMinusOne(e.xn, e.den) \/ RoundsToMinusOne(e.yn, e.den))
                 => pixd.data[i][j] = pass[1].init[i][j]

\* C14: at every return of getProjectiveXformCoeffs no scratch row of the
\* matrix is still allocated, and at a return of nonzero the vector pointer
\* of the caller has not been set.
C14_ScratchReleasedOnEveryReturn ==
  (Returned /\ op = "getProjectiveXformCoeffs") =>
    /\ xf.rowsLive = 0
    /\ xf.ret # 0 => ~xf.set

AllKinds == {"sampled", "gray", "color"}
MappedOutside(ps, i, j) ==
  LET p == projectiveXformSampledPt(ps.vc, j, i, env.ub)
  IN  ~InBounds(p.xp, p.yp, ps.w, ps.h)

====
